---- MODULE Spec2Model ----
(***************************************************************************)
(* The Genre and BookInstance controllers of the local-library catalog as  *)
(* a state machine.  The state is the document store (the Genre, Book and  *)
(* BookInstance collections) and the requests in flight.  A request runs   *)
(* one handler; a handler is cut at its awaits, so each action is one      *)
(* store interaction together with the synchronous code around it.         *)
(*   src/unnamed/part_000                      the Genre controller        *)
(*   src/controllers/bookinstanceController.js the BookInstance controller *)
(***************************************************************************)
EXTENDS Naturals, Sequences, FiniteSets

VARIABLES genres, nextGenreId, books, instances, nextInstId, req

vars == <<genres, nextGenreId, books, instances, nextInstId, req>>

(***************************************************************************)
(* Bounds of the model.                                                    *)
(***************************************************************************)
\* ids the Genre collection may hand out (ids are never reused)
MaxGenreId == 2
\* ids the BookInstance collection may hand out
MaxInstId == 1

\* the requests that may be in flight at the same time
Req == {"r1", "r2"}

GenreIds == 1..MaxGenreId
InstIds == 1..MaxInstId
NoId == 0

(***************************************************************************)
(* Text.  A string is a sequence of one-character strings, so that trim,   *)
(* escape, length and ordering are computed and not assumed.               *)
(***************************************************************************)
Code(c) ==
  CASE c = " " -> 32
    [] c = "&" -> 38
    [] c = "1" -> 49
    [] c = "2" -> 50
    [] c = ";" -> 59
    [] c = "<" -> 60
    [] c = "F" -> 70
    [] c = "a" -> 97
    [] c = "b" -> 98
    [] c = "c" -> 99
    [] c = "l" -> 108
    [] c = "m" -> 109
    [] c = "p" -> 112
    [] c = "t" -> 116
    [] OTHER -> 122

IsSpace(c) == c = " "

RECURSIVE ltrim(_)
ltrim(s) == IF s # <<>> /\ IsSpace(Head(s)) THEN ltrim(Tail(s)) ELSE s

RECURSIVE rtrim(_)
rtrim(s) ==
  IF s # <<>> /\ IsSpace(s[Len(s)]) THEN rtrim(SubSeq(s, 1, Len(s) - 1)) ELSE s

\* .trim(): whitespace removed at both ends
trim(s) == rtrim(ltrim(s))

\* .isLength({ min: n })
isLength(s, min) == Len(s) >= min

EscapeChar(c) ==
  CASE c = "<" -> <<"&", "l", "t", ";">>
    [] c = "&" -> <<"&", "a", "m", "p", ";">>
    [] OTHER -> <<c>>

RECURSIVE escape(_)
\* .escape(): HTML special characters replaced by their entities
escape(s) == IF s = <<>> THEN <<>> ELSE EscapeChar(Head(s)) \o escape(Tail(s))

RECURSIVE StrLeq(_, _)
\* the order of two strings by code unit, as the store compares them
StrLeq(s, t) ==
  IF s = <<>> THEN TRUE
  ELSE IF t = <<>> THEN FALSE
  ELSE IF Code(Head(s)) < Code(Head(t)) THEN TRUE
  ELSE IF Code(Head(s)) > Code(Head(t)) THEN FALSE
  ELSE StrLeq(Tail(s), Tail(t))

(***************************************************************************)
(* Inputs of the requests.                                                 *)
(***************************************************************************)
NameInputs ==
  { <<>>,
    <<" ", " ", " ">>,
    <<"<">>,
    <<"a", "b">>,
    <<"a", "b", "c">>,
    <<" ", "a", "b", "c", " ">>,
    <<"<", "b", "c">> }

\* well-formed object ids of Books, as they appear in a form field
BookIdInputs == { <<"b", "1">>, <<"b", "2">> }
\* values of the form field `book`: missing, ill-formed, well-formed
BookInputs == { <<>>, <<"<">> } \cup BookIdInputs
ImprintInputs == { <<>>, <<"F">> }
StatusInputs == { <<"a">>, <<"<">> }
\* values of the form field `due_back`: missing, an ISO-8601 date, other text
DueBackInputs == { "", "2020-01-01", "tomorrow" }

(***************************************************************************)
(* The store.                                                              *)
(***************************************************************************)
Genre(id, name) == [id |-> id, name |-> name]

\* the virtual `url` of a Genre document
GenreUrl(id) == [path |-> "/catalog/genre/", id |-> id]
\* the virtual `url` of a BookInstance document
BookInstanceUrl(id) == [path |-> "/catalog/bookinstance/", id |-> id]
ListUrl(path) == [path |-> path, id |-> NoId]

\* Model.findById(id): the document, or none
findById(coll, id) == { d \in coll : d.id = id }

\* Book.find({ genre: id })
BooksOfGenre(id) == { b \in books : b.genre = id }

\* the sort key of a document: absent when the document has no such field
HasField(d, f) == f \in DOMAIN d

\* a faulty variant: the query names a field the documents do not have
findOneByGenreName(coll, n) ==
  { d \in coll : HasField(d, "genre_name") /\ d.genre_name = n }

\* Model.findOne({ name: n }): the candidates; the store returns one of them
findOne(coll, n) == { d \in coll : d.name = n }

\* a faulty variant: the delete is not narrowed to the id
deleteMany(coll, id) == {}

\* Model.findByIdAndDelete(id)
findByIdAndDelete(coll, id) == { d \in coll : d.id # id }

\* the store's order on sort keys; an absent key sorts first, two absent keys
\* are equal
KeyLeq(d, e, f) ==
  IF ~HasField(d, f) THEN TRUE
  ELSE IF ~HasField(e, f) THEN FALSE
  ELSE StrLeq(d[f], e[f])

\* the sequences that list coll once each
Listings(coll) ==
  { l \in [1..Cardinality(coll) -> coll] :
      \A i, j \in 1..Cardinality(coll) : l[i] = l[j] => i = j }

\* Model.find().sort({ f: 1 }): the results the store may return, ascending by
\* field f; documents with equal keys come in any order
Sorted(coll, f) ==
  { l \in Listings(coll) :
      \A i, j \in 1..Len(l) : i < j => KeyLeq(l[i], l[j], f) }

\* Book.find({}, "title").sort({ title: 1 })
BookList == Sorted(books, "title")

(***************************************************************************)
(* Requests and responses.                                                 *)
(***************************************************************************)
NoBody ==
  [genreid |-> NoId, bookinstanceid |-> NoId, name |-> <<>>, book |-> <<>>,
   imprint |-> <<>>, status |-> <<>>, due_back |-> ""]

Idle ==
  [handler |-> "", pc |-> "idle", id |-> NoId, body |-> NoBody, raw |-> NoBody,
   found |-> {}, resp |-> <<>>, muts |-> 0, rejected |-> FALSE,
   overlapped |-> FALSE]

\* res.render(view, locals)
Render(view, locals) ==
  [kind |-> "render", view |-> view, url |-> ListUrl(""), err |-> "",
   status |-> 0, locals |-> locals]

\* res.redirect(url)
Redirect(url) ==
  [kind |-> "redirect", view |-> "", url |-> url, err |-> "", status |-> 0,
   locals |-> [title |-> ""]]

\* next(err)
NextErr(err, status) ==
  [kind |-> "next", view |-> "", url |-> ListUrl(""), err |-> err,
   status |-> status, locals |-> [title |-> ""]]

InFlight(q) == req[q].pc \notin {"idle", "done"}

\* whether a request records that another request ran while it was in flight
Tracked(rec) == rec.handler = "genre_create_post"

\* request r moves to record rec; a tracked request that runs while another
\* is in flight is marked, and so is a tracked request in flight meanwhile
Step(r, rec) ==
  req' = [q \in Req |->
            IF q = r
              THEN [rec EXCEPT !.overlapped =
                      Tracked(rec) /\ (req[r].overlapped
                                        \/ \E o \in Req \ {r} : InFlight(o))]
            ELSE IF InFlight(q) /\ Tracked(req[q])
              THEN [req[q] EXCEPT !.overlapped = TRUE]
            ELSE req[q]]

\* slot r takes up a new request.  Sending a response (Recycle) touches no
\* state of the program, so it is ordered before the next request is taken up
CanBegin(r) ==
  /\ req[r].pc = "idle"
  /\ \A q \in Req : req[q].pc # "done"

\* a new request for handler h: raw is the body as submitted, body the body
\* as the validation chains of the route leave it
Begin(h, id, raw, body) ==
  [Idle EXCEPT !.handler = h, !.pc = "run", !.id = id, !.raw = raw,
               !.body = body]

\* the handler responds and ends
Respond(rec, resp) ==
  [rec EXCEPT !.pc = "done", !.resp = Append(rec.resp, resp)]

\* a store operation rejects: the handler's catch, or asyncHandler, calls
\* next(err)
Rejects(rec) ==
  [Respond(rec, NextErr("StoreError", 0)) EXCEPT !.rejected = TRUE]

StoreUnchanged == UNCHANGED <<genres, nextGenreId, books, instances, nextInstId>>

(***************************************************************************)
(* The Genre controller.                                                   *)
(***************************************************************************)
FieldError(path, msg) == [path |-> path, msg |-> msg]

\* a faulty variant: the length is tested on the escaped name
GenreCreateErrorsAfterEscape(raw) ==
  IF isLength(escape(trim(raw)), 3) THEN <<>>
  ELSE << FieldError("name", "Genre name must contain at least 3 characters") >>

\* body("name", ...).trim().isLength({ min: 3 }).escape(): the errors
GenreCreateErrors(raw) ==
  IF isLength(trim(raw), 3) THEN <<>>
  ELSE << FieldError("name", "Genre name must contain at least 3 characters") >>

\* body("name", ...).trim().isLength({ min: 1 }).escape(): the errors
GenreUpdateErrors(raw) ==
  IF isLength(trim(raw), 1) THEN <<>>
  ELSE << FieldError("name", "Genre name must not be empty.") >>

\* the value the chain leaves in req.body.name
SanitizedName(raw) == escape(trim(raw))

\* the sort that genre_list asks of the store
GenreListSort == "genre_name"

genre_list(r) ==
  /\ CanBegin(r)
  /\ LET rec == Begin("genre_list", NoId, NoBody, NoBody) IN
       \/ \E allGenres \in Sorted(genres, GenreListSort) :
            Step(r, Respond(rec, Render("genre_list",
                   [title |-> "Genre List", genre_list |-> allGenres])))
       \/ Step(r, Rejects(rec))
  /\ StoreUnchanged

genre_detail(r, id) ==
  /\ CanBegin(r)
  /\ LET rec == Begin("genre_detail", id, NoBody, NoBody)
         genre == findById(genres, id)
         booksInGenre == BooksOfGenre(id)
     IN
       \/ /\ genre = {}
          /\ Step(r, Respond(rec, NextErr("Genre not found", 404)))
       \/ /\ genre # {}
          /\ Step(r, Respond(rec, Render("genre_detail",
                 [title |-> "Genre Detail", genre |-> genre,
                  genre_books |-> booksInGenre])))
       \/ Step(r, Rejects(rec))
  /\ StoreUnchanged

genre_create_get(r) ==
  /\ CanBegin(r)
  /\ Step(r, Respond(Begin("genre_create_get", NoId, NoBody, NoBody),
                     Render("genre_form", [title |-> "Create Genre"])))
  /\ StoreUnchanged

\* the inserts that requests past their existence check are still to make
PendingSaves ==
  Cardinality({ q \in Req : req[q].handler = "genre_create_post"
                            /\ req[q].pc = "save" })

\* validation, then the existence check: Genre.findOne({ name })
genre_create_post(r, raw) ==
  /\ CanBegin(r)
  /\ LET name == SanitizedName(raw)
         rec == Begin("genre_create_post", NoId,
                      [NoBody EXCEPT !.name = raw],
                      [NoBody EXCEPT !.name = name])
         errors == GenreCreateErrors(raw)
     IN
       IF errors # <<>>
         THEN Step(r, Respond(rec, Render("genre_form",
                  [title |-> "Create Genre", genre |-> [name |-> name],
                   errors |-> errors])))
         ELSE \/ \E genreExists \in findOne(genres, name) :
                   Step(r, Respond(rec, Redirect(GenreUrl(genreExists.id))))
              \/ /\ findOne(genres, name) = {}
                 /\ nextGenreId + PendingSaves <= MaxGenreId
                 /\ Step(r, [rec EXCEPT !.pc = "save"])
              \/ Step(r, Rejects(rec))
  /\ StoreUnchanged

\* a faulty variant: the Genre is built from the name as submitted
NewGenreRaw(rec, id) == Genre(id, rec.raw.name)

\* new Genre({ name: req.body.name }), under the id the store gives it
NewGenre(rec, id) == Genre(id, rec.body.name)

\* await genre.save(), then the redirect to the new Genre
genre_create_post_save(r) ==
  /\ req[r].handler = "genre_create_post"
  /\ req[r].pc = "save"
  /\ LET rec == [req[r] EXCEPT !.muts = @ + 1] IN
       \/ /\ genres' = genres \cup {NewGenre(rec, nextGenreId)}
          /\ nextGenreId' = nextGenreId + 1
          /\ Step(r, Respond(rec, Redirect(GenreUrl(nextGenreId))))
       \/ /\ UNCHANGED <<genres, nextGenreId>>
          /\ Step(r, Rejects(rec))
  /\ UNCHANGED <<books, instances, nextInstId>>

\* a faulty variant: the Genre that is not found is reported as genre_detail does
GenreNotFoundOnDeleteAs404(rec) == Respond(rec, NextErr("Genre not found", 404))

\* a faulty variant: the return after the redirect is missing, and the view is
\* rendered as well
GenreNotFoundOnDeleteNoReturn(rec) ==
  Respond(Respond(rec, Redirect(ListUrl("/catalog/genres"))),
          Render("genre_delete",
            [title |-> "Delete Genre", genre |-> {},
             books_using_genre |-> BooksOfGenre(rec.id)]))

\* if (!genre) { res.redirect("/catalog/genres"); return; }
GenreNotFoundOnDelete(rec) == Respond(rec, Redirect(ListUrl("/catalog/genres")))

genre_delete_get(r, id) ==
  /\ CanBegin(r)
  /\ LET rec == Begin("genre_delete_get", id, NoBody, NoBody)
         genre == findById(genres, id)
         booksUsingGenre == BooksOfGenre(id)
     IN
       \/ /\ genre = {}
          /\ Step(r, GenreNotFoundOnDelete(rec))
       \/ /\ genre # {}
          /\ Step(r, Respond(rec, Render("genre_delete",
                 [title |-> "Delete Genre", genre |-> genre,
                  books_using_genre |-> booksUsingGenre])))
       \/ Step(r, Rejects(rec))
  /\ StoreUnchanged

\* the two reads, then the test on the Books that use the Genre of the route
genre_delete_post(r, id, genreid) ==
  /\ CanBegin(r)
  /\ LET body == [NoBody EXCEPT !.genreid = genreid]
         rec == Begin("genre_delete_post", id, body, body)
         genre == findById(genres, id)
         booksUsingGenre == BooksOfGenre(id)
     IN
       \/ /\ Cardinality(booksUsingGenre) > 0
          /\ Step(r, Respond(rec, Render("genre_delete",
                 [title |-> "Delete Genre", genre |-> genre,
                  books_using_genre |-> booksUsingGenre])))
       \/ /\ ~(Cardinality(booksUsingGenre) > 0)
          /\ Step(r, [rec EXCEPT !.pc = "delete"])
       \/ Step(r, Rejects(rec))
  /\ StoreUnchanged

\* await Genre.findByIdAndDelete(req.body.genreid), then the redirect
genre_delete_post_delete(r) ==
  /\ req[r].handler = "genre_delete_post"
  /\ req[r].pc = "delete"
  /\ LET rec == [req[r] EXCEPT !.muts = @ + 1] IN
       \/ /\ genres' = findByIdAndDelete(genres, rec.body.genreid)
          /\ Step(r, Respond(rec, Redirect(ListUrl("/catalog/genres"))))
       \/ /\ UNCHANGED genres
          /\ Step(r, Rejects(rec))
  /\ UNCHANGED <<nextGenreId, books, instances, nextInstId>>

genre_update_get(r, id) ==
  /\ CanBegin(r)
  /\ LET rec == Begin("genre_update_get", id, NoBody, NoBody)
         genre == findById(genres, id)
     IN
       \/ /\ genre = {}
          /\ Step(r, Respond(rec, NextErr("Genre not found", 404)))
       \/ /\ genre # {}
          /\ Step(r, Respond(rec, Render("genre_form",
                 [title |-> "Update Genre", genre |-> genre])))
       \/ Step(r, Rejects(rec))
  /\ StoreUnchanged

\* Genre.findByIdAndUpdate(id, genre, {}): the document of that id, if any,
\* takes the new name
GenreUpdated(id, name) ==
  { IF g.id = id THEN Genre(id, name) ELSE g : g \in genres }

genre_update_post(r, id, raw) ==
  /\ CanBegin(r)
  /\ LET name == SanitizedName(raw)
         rec == Begin("genre_update_post", id,
                      [NoBody EXCEPT !.name = raw],
                      [NoBody EXCEPT !.name = name])
         errors == GenreUpdateErrors(raw)
     IN
       IF errors # <<>>
         THEN /\ Step(r, Respond(rec, Render("genre_form",
                    [title |-> "Update Genre",
                     genre |-> [id |-> id, name |-> name],
                     errors |-> errors])))
              /\ UNCHANGED genres
         ELSE \/ /\ genres' = GenreUpdated(id, name)
                 /\ Step(r, Respond([rec EXCEPT !.muts = @ + 1],
                                    Redirect(GenreUrl(id))))
              \/ /\ UNCHANGED genres
                 /\ Step(r, Rejects([rec EXCEPT !.muts = @ + 1]))
  /\ UNCHANGED <<nextGenreId, books, instances, nextInstId>>

(***************************************************************************)
(* The BookInstance controller.                                            *)
(***************************************************************************)
BookInstance(id, book, imprint, status, due_back) ==
  [id |-> id, book |-> book, imprint |-> imprint, status |-> status,
   due_back |-> due_back]

\* .populate("book"): the reference replaced by the Book it names, or by none
populate(inst) ==
  [inst EXCEPT !.book = { b \in books : b.id = inst.book }]

\* .isISO8601()
isISO8601(s) == s \in {"2020-01-01"}

\* .toDate(): the Date the text parses to, or null
toDate(s) == IF s \in {"2020-01-01"} THEN "Date(2020-01-01)" ELSE "null"

\* the cast of a value to the ObjectId of the path `book`: the id, or none
\* when the text is no object id (the path is then left undefined)
CastBook(v) == IF v \in BookIdInputs THEN {v} ELSE {}

\* the cast of a value to the Date of the path `due_back`, or none
CastDate(v) ==
  CASE v \in {"", "null"} -> {"null"}
    [] v \in {"2020-01-01", "Date(2020-01-01)"} -> {"Date(2020-01-01)"}
    [] OTHER -> {}

\* the errors of the chains on book, imprint, status and due_back
BookInstanceErrors(book, imprint, due_back) ==
  (IF isLength(trim(book), 1) THEN <<>>
   ELSE << FieldError("book", "Book must be specified") >>)
  \o (IF isLength(trim(imprint), 1) THEN <<>>
      ELSE << FieldError("imprint", "Imprint must be specified") >>)
  \o (IF due_back = "" \/ isISO8601(due_back) THEN <<>>
      ELSE << FieldError("due_back", "Invalid date") >>)

\* the body as the chains leave it
BookInstanceBody(book, imprint, status, due_back) ==
  [NoBody EXCEPT !.book = escape(trim(book)),
                 !.imprint = escape(trim(imprint)),
                 !.status = escape(status),
                 !.due_back = IF due_back = "" THEN "" ELSE toDate(due_back)]

bookinstance_list(r) ==
  /\ CanBegin(r)
  /\ LET rec == Begin("bookinstance_list", NoId, NoBody, NoBody) IN
       \/ Step(r, Respond(rec, Render("bookinstance_list",
              [title |-> "Book Instance List",
               bookinstance_list |-> { populate(i) : i \in instances }])))
       \/ Step(r, Rejects(rec))
  /\ StoreUnchanged

bookinstance_detail(r, id) ==
  /\ CanBegin(r)
  /\ LET rec == Begin("bookinstance_detail", id, NoBody, NoBody)
         bookInstance == { populate(i) : i \in findById(instances, id) }
     IN
       \/ /\ bookInstance = {}
          /\ Step(r, Respond(rec, NextErr("Book copy not found", 404)))
       \/ /\ bookInstance # {}
          /\ Step(r, Respond(rec, Render("bookinstance_detail",
                 [title |-> "Book:", bookinstance |-> bookInstance])))
       \/ Step(r, Rejects(rec))
  /\ StoreUnchanged

bookinstance_create_get(r) ==
  /\ CanBegin(r)
  /\ LET rec == Begin("bookinstance_create_get", NoId, NoBody, NoBody) IN
       \/ \E allBooks \in BookList :
            Step(r, Respond(rec, Render("bookinstance_form",
                   [title |-> "Create Book Instance", book_list |-> allBooks])))
       \/ Step(r, Rejects(rec))
  /\ StoreUnchanged

\* the form again after a failed validation: bookInstance.book._id is read
\* while the locals are built, and throws when the path book is undefined
CreateFormAgain(rec, bookInstance, allBooks, errors) ==
  IF bookInstance.book = {}
    THEN Respond(rec, NextErr("TypeError", 0))
    ELSE Respond(rec, Render("bookinstance_form",
           [title |-> "Create BookInstance", book_list |-> allBooks,
            selected_book |-> bookInstance.book, errors |-> errors,
            bookinstance |-> bookInstance]))

bookinstance_create_post(r, book, imprint, status, due_back) ==
  /\ CanBegin(r)
  /\ LET raw == [NoBody EXCEPT !.book = book, !.imprint = imprint,
                               !.status = status, !.due_back = due_back]
         body == BookInstanceBody(book, imprint, status, due_back)
         rec == Begin("bookinstance_create_post", NoId, raw, body)
         errors == BookInstanceErrors(book, imprint, due_back)
         bookInstance == [book |-> CastBook(body.book),
                          imprint |-> body.imprint, status |-> body.status,
                          due_back |-> CastDate(body.due_back)]
     IN
       IF errors # <<>>
         THEN /\ \/ \E allBooks \in BookList :
                      Step(r, CreateFormAgain(rec, bookInstance, allBooks,
                                              errors))
                 \/ Step(r, Rejects(rec))
              /\ UNCHANGED <<instances, nextInstId>>
         ELSE \/ /\ nextInstId <= MaxInstId
                 /\ bookInstance.book # {}
                 /\ \E b \in bookInstance.book, d \in bookInstance.due_back :
                      instances' = instances \cup
                        {BookInstance(nextInstId, b, body.imprint,
                                      body.status, d)}
                 /\ nextInstId' = nextInstId + 1
                 /\ Step(r, Respond([rec EXCEPT !.muts = @ + 1],
                                    Redirect(BookInstanceUrl(nextInstId))))
              \/ /\ UNCHANGED <<instances, nextInstId>>
                 /\ Step(r, Rejects([rec EXCEPT !.muts = @ + 1]))
  /\ UNCHANGED <<genres, nextGenreId, books>>

bookinstance_delete_get(r, id) ==
  /\ CanBegin(r)
  /\ LET rec == Begin("bookinstance_delete_get", id, NoBody, NoBody)
         bookInstance == { populate(i) : i \in findById(instances, id) }
     IN
       \/ /\ bookInstance = {}
          /\ Step(r, Respond(rec, NextErr("BookInstance not found", 404)))
       \/ /\ bookInstance # {}
          /\ Step(r, Respond(rec, Render("bookinstance_delete",
                 [title |-> "Delete Book Instance",
                  bookinstance |-> bookInstance])))
       \/ Step(r, Rejects(rec))
  /\ StoreUnchanged

bookinstance_delete_post(r, bookinstanceid) ==
  /\ CanBegin(r)
  /\ LET body == [NoBody EXCEPT !.bookinstanceid = bookinstanceid]
         rec == [Begin("bookinstance_delete_post", NoId, body, body)
                   EXCEPT !.muts = @ + 1]
     IN
       \/ /\ instances' = findByIdAndDelete(instances, bookinstanceid)
          /\ Step(r, Respond(rec, Redirect(ListUrl("/catalog/bookinstances"))))
       \/ /\ UNCHANGED instances
          /\ Step(r, Rejects(rec))
  /\ UNCHANGED <<genres, nextGenreId, books, nextInstId>>

\* BookInstance.findById(id).populate("book"), and the test for none
bookinstance_update_get(r, id) ==
  /\ CanBegin(r)
  /\ LET rec == Begin("bookinstance_update_get", id, NoBody, NoBody)
         bookInstance == { populate(i) : i \in findById(instances, id) }
     IN
       \/ /\ bookInstance = {}
          /\ Step(r, Respond(rec, NextErr("Book instance not found", 404)))
       \/ /\ bookInstance # {}
          /\ Step(r, [rec EXCEPT !.pc = "books", !.found = bookInstance])
       \/ Step(r, Rejects(rec))
  /\ StoreUnchanged

\* the form of an update: bookInstance.book.title is read while the locals are
\* built, and throws when the Book the instance names is not in the store
UpdateForm(rec, bookInstance, allBooks) ==
  IF bookInstance.book = {}
    THEN Respond(rec, NextErr("TypeError", 0))
    ELSE Respond(rec, Render("bookinstance_form",
           [title |-> "Update Book Instance", bookinstance |-> bookInstance,
            book_list |-> allBooks,
            default_book_title |-> { b.title : b \in bookInstance.book }]))

\* await Book.find({}, "title").sort({ title: 1 }), then the form
bookinstance_update_get_books(r) ==
  /\ req[r].handler = "bookinstance_update_get"
  /\ req[r].pc = "books"
  /\ \/ \E allBooks \in BookList, bookInstance \in req[r].found :
          Step(r, UpdateForm(req[r], bookInstance, allBooks))
     \/ Step(r, Rejects(req[r]))
  /\ StoreUnchanged

\* validationResult(req) of a route with no validation chain: no errors
NoChainErrors == <<>>

\* BookInstance.findByIdAndUpdate(id, bookInstance, {}): the document of that
\* id, if any, takes the paths that bookInstance defines
InstanceUpdated(id, bookInstance) ==
  { IF i.id # id THEN i
    ELSE BookInstance(id,
           IF bookInstance.book = {} THEN i.book
             ELSE CHOOSE b \in bookInstance.book : TRUE,
           bookInstance.imprint, bookInstance.status,
           IF bookInstance.due_back = {} THEN i.due_back
             ELSE CHOOSE d \in bookInstance.due_back : TRUE)
    : i \in instances }

bookinstance_update_post(r, id, book, imprint, status, due_back) ==
  /\ CanBegin(r)
  /\ LET body == [NoBody EXCEPT !.book = book, !.imprint = imprint,
                                !.status = status, !.due_back = due_back]
         rec == Begin("bookinstance_update_post", id, body, body)
         bookInstance == [id |-> id, book |-> CastBook(book),
                          imprint |-> imprint, status |-> status,
                          due_back |-> CastDate(due_back)]
         errors == NoChainErrors
     IN
       IF errors # <<>>
         THEN /\ \/ \E allBooks \in BookList :
                      Step(r, Respond(rec, Render("bookinstance_form",
                             [title |-> "Update BookInstance",
                              bookinstance |-> bookInstance,
                              book_list |-> allBooks, errors |-> errors])))
                 \/ Step(r, Rejects(rec))
              /\ UNCHANGED instances
         ELSE \/ /\ instances' = InstanceUpdated(id, bookInstance)
                 /\ Step(r, Respond([rec EXCEPT !.muts = @ + 1],
                                    Redirect(BookInstanceUrl(id))))
              \/ /\ UNCHANGED instances
                 /\ Step(r, Rejects([rec EXCEPT !.muts = @ + 1]))
  /\ UNCHANGED <<genres, nextGenreId, books, nextInstId>>

(***************************************************************************)
(* The system.                                                             *)
(***************************************************************************)
\* the response has been sent: the request is over
Recycle(r) ==
  /\ req[r].pc = "done"
  /\ req' = [req EXCEPT ![r] = Idle]
  /\ StoreUnchanged

Book(id, title, genre) == [id |-> id, title |-> title, genre |-> genre]

\* the catalog's contents when the server starts
Seeds ==
  { [genres |-> {}, books |-> {}],
    [genres |-> {Genre(1, <<"a", "b", "c">>)},
     books |-> {Book(<<"b", "1">>, <<"b">>, 1), Book(<<"b", "2">>, <<"a">>, 1)}] }

Init ==
  /\ \E s \in Seeds :
       /\ genres = s.genres
       /\ books = s.books
       /\ nextGenreId = Cardinality(s.genres) + 1
  /\ instances = {}
  /\ nextInstId = 1
  /\ req = [r \in Req |-> Idle]

\* the inputs that take every handler down each of its paths
CoreNames == { <<>>, <<"<", "b", "c">> }
CoreBooks == { <<>>, <<"b", "1">>, <<"b", "2">> }
CoreImprints == { <<"F">> }
CoreStatuses == { <<"a">> }
CoreDueBacks == { "", "tomorrow" }

GenreHandlers(Names) ==
  \E r \in Req :
    \/ genre_list(r)
    \/ \E id \in GenreIds : genre_detail(r, id)
    \/ genre_create_get(r)
    \/ \E raw \in Names : genre_create_post(r, raw)
    \/ genre_create_post_save(r)
    \/ \E id \in GenreIds : genre_delete_get(r, id)
    \/ \E id \in GenreIds, genreid \in GenreIds : genre_delete_post(r, id, genreid)
    \/ genre_delete_post_delete(r)
    \/ \E id \in GenreIds : genre_update_get(r, id)
    \/ \E id \in GenreIds, raw \in Names : genre_update_post(r, id, raw)
    \/ Recycle(r)

BookInstanceHandlers(Books, Imprints, Statuses, DueBacks) ==
  \E r \in Req :
    \/ bookinstance_list(r)
    \/ \E id \in InstIds : bookinstance_detail(r, id)
    \/ bookinstance_create_get(r)
    \/ \E book \in Books, imprint \in Imprints,
          status \in Statuses, due_back \in DueBacks :
         bookinstance_create_post(r, book, imprint, status, due_back)
    \/ \E id \in InstIds : bookinstance_delete_get(r, id)
    \/ \E id \in InstIds : bookinstance_delete_post(r, id)
    \/ \E id \in InstIds : bookinstance_update_get(r, id)
    \/ bookinstance_update_get_books(r)
    \/ \E id \in InstIds, book \in Books, imprint \in Imprints,
          status \in Statuses, due_back \in DueBacks :
         bookinstance_update_post(r, id, book, imprint, status, due_back)
    \/ Recycle(r)

\* both controllers
Next ==
  \/ GenreHandlers(CoreNames)
  \/ BookInstanceHandlers(CoreBooks, CoreImprints, CoreStatuses, CoreDueBacks)

\* the Genre controller, every name
GenreNext == GenreHandlers(NameInputs)

\* the BookInstance controller, every value of every field
BookInstanceNext ==
  BookInstanceHandlers(BookInputs, ImprintInputs, StatusInputs, DueBackInputs)

Spec == Init /\ [][Next]_vars
GenreSpec == Init /\ [][GenreNext]_vars
BookInstanceSpec == Init /\ [][BookInstanceNext]_vars

(***************************************************************************)
(* Properties.                                                             *)
(***************************************************************************)
\* this step is a step of request r, which runs handler h
Ran(r, h) == req'[r].handler = h /\ req'[r].pc # req[r].pc

\* request r has ended in handler h
Ended(r, h) == req[r].handler = h /\ req[r].pc = "done"

Referenced(id) == \E b \in books : b.genre = id

Named(coll, n) == { g \in coll : g.name = n }

\* C1: a genre_delete_post request, whatever its route id and its body field
\* genreid, never removes a Genre that a Book references; and when Books
\* reference the Genre of the route, the response is the confirmation view
\* again, listing those Books.
C1_ReferencedGenreNeverDeleted ==
  [][\A r \in Req : Ran(r, "genre_delete_post") =>
       /\ \A g \in genres : Referenced(g.id) => g \in genres'
       /\ (req[r].pc = "idle" /\ ~req'[r].rejected /\ Referenced(req'[r].id)) =>
            /\ req'[r].pc = "done"
            /\ req'[r].resp =
                 << Render("genre_delete",
                      [title |-> "Delete Genre",
                       genre |-> { g \in genres : g.id = req'[r].id },
                       books_using_genre |->
                         { b \in books : b.genre = req'[r].id }]) >>
    ]_vars

\* C4: the delete of a genre_delete_post request whose route names a Genre of
\* the store that no Book references removes that Genre and no other, and
\* answers with the redirect to /catalog/genres.
C4_DeleteRemovesRouteGenre ==
  [][\A r \in Req :
       ( /\ Ran(r, "genre_delete_post")
         /\ req[r].pc = "delete"
         /\ ~req'[r].rejected
         /\ ~Referenced(req[r].id)
         /\ \E g \in genres : g.id = req[r].id ) =>
           /\ genres' = { g \in genres : g.id # req[r].id }
           /\ req'[r].resp = << Redirect(ListUrl("/catalog/genres")) >>
    ]_vars

\* C9: genre_list renders the Genres of the store, each once, in ascending
\* order of name.
C9_GenreListSortedByName ==
  [][\A r \in Req : (Ran(r, "genre_list") /\ ~req'[r].rejected) =>
       /\ req'[r].pc = "done"
       /\ Len(req'[r].resp) = 1
       /\ req'[r].resp[1].view = "genre_list"
       /\ LET l == req'[r].resp[1].locals.genre_list IN
            /\ Len(l) = Cardinality(genres)
            /\ { l[i] : i \in 1..Len(l) } = genres
            /\ \A i, j \in 1..Len(l) : i < j => StrLeq(l[i].name, l[j].name)
    ]_vars

\* C2 as stated: a genre_create_post request whose trimmed and escaped name
\* is the name of a Genre of the store inserts nothing and answers with the
\* redirect to that Genre's url.
C2_ExistingNameRedirects ==
  [][\A r \in Req :
       ( /\ Ran(r, "genre_create_post")
         /\ req[r].pc = "idle"
         /\ ~req'[r].rejected
         /\ Named(genres, req'[r].body.name) # {} ) =>
           /\ genres' = genres
           /\ req'[r].pc = "done"
           /\ req'[r].muts = 0
           /\ \E g \in Named(genres, req'[r].body.name) :
                req'[r].resp = << Redirect([path |-> "/catalog/genre/", id |-> g.id]) >>
    ]_vars

\* C2 amended: the same, for a name that passes the validation (at least 3
\* characters after trimming) and a lookup that resolves.
C2_ExistingValidNameRedirects ==
  [][\A r \in Req :
       ( /\ Ran(r, "genre_create_post")
         /\ req[r].pc = "idle"
         /\ ~req'[r].rejected
         /\ Len(trim(req'[r].raw.name)) >= 3
         /\ Named(genres, req'[r].body.name) # {} ) =>
           /\ genres' = genres
           /\ req'[r].pc = "done"
           /\ req'[r].muts = 0
           /\ \E g \in Named(genres, req'[r].body.name) :
                req'[r].resp = << Redirect([path |-> "/catalog/genre/", id |-> g.id]) >>
    ]_vars

\* a request for a stored name has been answered with the redirect to the
\* stored Genre, and has inserted nothing
C2_Witness ==
  \E r \in Req :
    /\ Ended(r, "genre_create_post")
    /\ req[r].muts = 0
    /\ Len(req[r].resp) = 1
    /\ req[r].resp[1].kind = "redirect"
    /\ \E g \in Named(genres, req[r].body.name) :
         req[r].resp[1].url = [path |-> "/catalog/genre/", id |-> g.id]

\* C3: a genre_create_post request whose name has fewer than 3 characters
\* after trimming leaves the store as it is, looks nothing up, and renders
\* the genre form with errors, one of them on the field name.
C3_ShortNameRejected ==
  [][\A r \in Req :
       (Ran(r, "genre_create_post") /\ Len(trim(req'[r].raw.name)) < 3) =>
           /\ genres' = genres
           /\ nextGenreId' = nextGenreId
           /\ req[r].pc = "idle"
           /\ req'[r].pc = "done"
           /\ req'[r].muts = 0
           /\ Len(req'[r].resp) = 1
           /\ req'[r].resp[1].kind = "render"
           /\ req'[r].resp[1].view = "genre_form"
           /\ req'[r].resp[1].locals.errors # <<>>
           /\ \E i \in 1..Len(req'[r].resp[1].locals.errors) :
                req'[r].resp[1].locals.errors[i].path = "name"
    ]_vars

\* a name too short only once trimmed has been refused
C3_Witness ==
  \E r \in Req :
    /\ Ended(r, "genre_create_post")
    /\ Len(req[r].raw.name) >= 3
    /\ Len(trim(req[r].raw.name)) < 3
    /\ req[r].resp[1].view = "genre_form"

C6_InvalidDueBackRendersForm ==
  [][\A r \in Req :
       ( /\ Ran(r, "bookinstance_create_post")
         /\ ~req'[r].rejected
         /\ req'[r].raw.due_back \notin {"", "2020-01-01"} ) =>
           /\ instances' = instances
           /\ req'[r].pc = "done"
           /\ Len(req'[r].resp) = 1
           /\ req'[r].resp[1].kind = "render"
           /\ req'[r].resp[1].view = "bookinstance_form"
           /\ req'[r].resp[1].locals.book_list \in Sorted(books, "title")
           /\ req'[r].resp[1].locals.selected_book = {req'[r].body.book}
           /\ req'[r].resp[1].locals.errors # <<>>
    ]_vars

\* C7: a genre_create_post request that no other request overlaps leaves
\* exactly one Genre of its name when it inserts, and inserts nothing when the
\* name is stored already: two such requests for one name, one after the
\* other, store one record.  (That two overlapping requests store two is
\* C7_Witness.)
C7_SequentialCreatesStoreOne ==
  [][\A r \in Req :
       ( /\ Ran(r, "genre_create_post")
         /\ req'[r].pc = "done"
         /\ ~req'[r].overlapped
         /\ ~req'[r].rejected ) =>
           IF Named(genres, req'[r].body.name) # {}
             THEN genres' = genres
             ELSE req'[r].muts = 1 =>
                    Cardinality(Named(genres', req'[r].body.name)) = 1
    ]_vars

\* two requests for one valid name that was not stored have both found
\* nothing and have both inserted: the store holds two Genres of that name
C7_Witness ==
  /\ \A r \in Req :
       /\ Ended(r, "genre_create_post")
       /\ req[r].muts = 1
       /\ ~req[r].rejected
       /\ req[r].resp[1].kind = "redirect"
  /\ \A r, q \in Req : req[r].raw.name = req[q].raw.name
  /\ \A r \in Req :
       Named(genres, req[r].body.name) =
         { g \in genres : \E q \in Req : req[q].resp[1].url.id = g.id }
  /\ \A r, q \in Req : r # q => req[r].resp[1].url # req[q].resp[1].url

ReadHandlers ==
  { "genre_list", "genre_detail", "genre_create_get", "genre_delete_get",
    "genre_update_get", "bookinstance_list", "bookinstance_detail",
    "bookinstance_create_get", "bookinstance_delete_get",
    "bookinstance_update_get" }

\* the ids whose document differs between two states of a collection
Changed(before, after) ==
  { id \in { d.id : d \in before \cup after } :
      { d \in before : d.id = id } # { d \in after : d.id = id } }

\* C8: a request issues at most one mutating store operation, only the step
\* that issues it changes the store, and it changes at most one record; the
\* list, detail, create_get, delete_get and update_get handlers issue none
\* and leave the three collections as they are.
C8_AtMostOneMutation ==
  [][\A r \in Req : (req'[r].pc # req[r].pc /\ req'[r].handler # "") =>
       /\ req'[r].muts <= 1
       /\ req'[r].muts = req[r].muts =>
            <<genres', books', instances'>> = <<genres, books, instances>>
       /\ Cardinality(Changed(genres, genres'))
            + Cardinality(Changed(instances, instances'))
            + Cardinality(Changed(books, books')) <= 1
       /\ req'[r].handler \in ReadHandlers =>
            /\ req'[r].muts = 0
            /\ <<genres', books', instances'>> = <<genres, books, instances>>
    ]_vars

\* an update has changed the name of a Genre, and a BookInstance has been
\* inserted
C8_Witness ==
  /\ \E r \in Req :
       /\ Ended(r, "genre_update_post")
       /\ req[r].muts = 1
       /\ ~req[r].rejected
       /\ \E g \in genres : g.id = req[r].id /\ g.name = req[r].body.name
  /\ instances # {}

\* C10: a handler that has ended has responded exactly once, with a render, a
\* redirect or a call of next with an error; a handler that has not ended has
\* not responded and can go on.  On every path: a store operation that
\* rejects, an entity that is absent, a validation that fails.
C10_ExactlyOneResponse ==
  \A r \in Req :
    /\ req[r].pc = "done" =>
         /\ Len(req[r].resp) = 1
         /\ req[r].resp[1].kind \in {"render", "redirect", "next"}
         /\ req[r].resp[1].kind = "next" => req[r].resp[1].err # ""
    /\ req[r].pc # "done" => req[r].resp = <<>>
    /\ InFlight(r) =>
         ENABLED ( \/ genre_create_post_save(r)
                   \/ genre_delete_post_delete(r)
                   \/ bookinstance_update_get_books(r) )

\* a delete has rejected, and the handler has called next(err) and nothing
\* else
C10_Witness ==
  \E r \in Req :
    /\ Ended(r, "genre_delete_post")
    /\ req[r].rejected
    /\ req[r].muts = 1
    /\ req[r].resp = << NextErr("StoreError", 0) >>

====
